---------------------------- MODULE Spec2Model ----------------------------
(***************************************************************************)
(* Model of the camera connection registry of videocapture_mcp.py:         *)
(* the process-wide dict active_captures, the tool handlers that open,     *)
(* read, configure and close cv2.VideoCapture handles, and the server's    *)
(* start / shutdown.                                                       *)
(*                                                                         *)
(* Strings are sequences of one-character strings, so that f-string        *)
(* formatting and str.startswith are computed, not assumed.                *)
(* A cv2.VideoCapture object is a number (its index in caps); caps[h]      *)
(* records the device it was opened on and how often release() was called. *)
(***************************************************************************)
EXTENDS Integers, Sequences, FiniteSets, TLC

\* ------------------------------------------------------------------ bounds
\* Number of cv2.VideoCapture objects that are successfully opened in a run.
MaxCaps == 2
\* The clock runs over the seconds 0..MaxTime of the modelled day.
MaxTime == 1
\* Number of concurrent callers in the interleaved specification.
NumProcs == 2

\* ------------------------------------------------------------------ inputs
\* Device indices the callers pass.
Devices == {0, 1}

\* ----------------------------------------------------------------- strings
DigitChars == <<"0", "1", "2", "3", "4", "5", "6", "7", "8", "9">>

\* str(n) for n >= 0, as the f-string renders an int.
RECURSIVE IntStr(_)
IntStr(n) ==
    IF n < 10 THEN <<DigitChars[n + 1]>>
    ELSE IntStr(n \div 10) \o <<DigitChars[(n % 10) + 1]>>

\* A two-digit zero-padded field of strftime (%H, %M, %S, %m, %d).
Pad2(n) == <<DigitChars[(n \div 10) + 1], DigitChars[(n % 10) + 1]>>

\* datetime.now().strftime('%Y%m%d%H%M%S') at second t of 2025-01-01.
Timestamp(t) ==
    <<"2", "0", "2", "5">> \o Pad2(1) \o Pad2(1)
        \o Pad2((t \div 3600) % 24) \o Pad2((t \div 60) % 60) \o Pad2(t % 60)

CameraPrefix == <<"c", "a", "m", "e", "r", "a", "_">>

\* f"camera_{device_index}_"
DevicePrefix(device_index) == CameraPrefix \o IntStr(device_index) \o <<"_">>

\* Mutant of GenName: the device index is left out of the generated name.
GenName_NoIndex(device_index, t) == CameraPrefix \o <<"_">> \o Timestamp(t)

\* f"camera_{device_index}_{datetime.now().strftime('%Y%m%d%H%M%S')}"
GenName(device_index, t) == DevicePrefix(device_index) \o Timestamp(t)

\* str.startswith
StartsWith(s, p) == Len(s) >= Len(p) /\ SubSeq(s, 1, Len(p)) = p

\* Names a caller supplies: a plain one, and one that follows the generated
\* convention by hand.
UserNames ==
    { <<"c", "a", "m">>,
      DevicePrefix(1) \o <<"x">> }

\* Connection ids that callers pass to the by-id tools whether or not they are
\* open: never opened, open, or closed earlier.
ProbeIds == {<<"c", "a", "m">>, GenName(0, 0)}

\* Optional[str]: <<>> is None, <<s>> is the string s.
None == <<>>
Some(s) == <<s>>

\* Keys of set_video_property's property_map.
property_map ==
    {"width", "height", "fps", "brightness", "contrast", "saturation",
     "auto_exposure", "auto_focus"}

\* Properties get_video_properties reads, in order.
PropertiesRead ==
    <<"width", "height", "fps", "frame_count", "brightness", "contrast",
      "saturation", "format">>

\* Property names and values the callers pass.
PropInputs == {"width", "frame_count"}
Values == {1}

\* ------------------------------------------------------- dict (insertion order)
\* active_captures is a Python dict: a sequence of entries in insertion order.
Keys(d) == {d[i].key : i \in DOMAIN d}
Has(d, k) == k \in Keys(d)
Get(d, k) == d[CHOOSE i \in DOMAIN d : d[i].key = k].cap
\* d[k] = c: an existing key keeps its position.
Put(d, k, c) ==
    IF Has(d, k)
    THEN [i \in DOMAIN d |-> IF d[i].key = k THEN [key |-> k, cap |-> c] ELSE d[i]]
    ELSE Append(d, [key |-> k, cap |-> c])
\* del d[k]
Del(d, k) == SelectSeq(d, LAMBDA e : e.key # k)

\* The ids a by-id call is made with: every open id and every probe id.
ConnIds(d) == Keys(d) \cup ProbeIds

\* ------------------------------------------------------------ call outcomes
\* What a handler leaves behind: the registry, the handle table, the device
\* operations it performed (log), the error it raised ("none" if it returned)
\* and its return value (id: Optional[str], ok: bool, frame: Optional frame,
\* list: the id list).
NoRet == [id |-> None, ok |-> FALSE, frame |-> <<>>, list |-> <<>>]

Outcome(ac, cs, log, err, ret) ==
    [ac |-> ac, caps |-> cs, log |-> log, err |-> err, ret |-> ret]

DevOp(op, cap) == [op |-> op, cap |-> cap]

\* cap.release()
Release(cs, cap) == [cs EXCEPT ![cap].released = @ + 1]


\* ---------------------------------------------------------------- handlers
\* Each handler is an operator from the registry ac, the handle table cs and
\* its arguments to an Outcome.  The device's answers (isOpened, the ret of
\* cap.read(), the result of cap.set()) are arguments, chosen by the caller.

\* Mutant of _open_camera: the handle is registered before isOpened is checked.
_open_camera_RegisterFirst(ac, cs, device_index, name, t, isOpened) ==
    LET nm  == IF name = None THEN GenName(device_index, t) ELSE name[1]
        cap == Len(cs) + 1
        cs1 == Append(cs, [device |-> device_index, released |-> 0])
    IN  IF ~isOpened
        THEN Outcome(Put(ac, nm, cap), cs1, <<>>, "DeviceOpenError", NoRet)
        ELSE Outcome(Put(ac, nm, cap), cs1, <<DevOp("open", cap)>>, "none",
                     [NoRet EXCEPT !.id = Some(nm)])

\* _open_camera(device_index, name) at second t.
_open_camera(ac, cs, device_index, name, t, isOpened) ==
    LET nm  == IF name = None THEN GenName(device_index, t) ELSE name[1]
        cap == Len(cs) + 1
    IN  IF ~isOpened
        THEN Outcome(ac, cs, <<>>, "DeviceOpenError", NoRet)
        ELSE Outcome(Put(ac, nm, cap),
                     Append(cs, [device |-> device_index, released |-> 0]),
                     <<DevOp("open", cap)>>,
                     "none",
                     [NoRet EXCEPT !.id = Some(nm)])

\* Mutant of _capture_frame: a failed read is retried once.
_capture_frame_Retry(ac, cs, connection_id, flip, ret) ==
    IF ~Has(ac, connection_id)
    THEN Outcome(ac, cs, <<>>, "UnknownConnectionError", NoRet)
    ELSE LET cap == Get(ac, connection_id)
         IN  IF ~(ret /\ cs[cap].released = 0)
             THEN Outcome(ac, cs, <<DevOp("read", cap), DevOp("read", cap)>>,
                          "CaptureFailedError", NoRet)
             ELSE Outcome(ac, cs, <<DevOp("read", cap)>>, "none",
                          [NoRet EXCEPT !.frame =
                              <<[cap |-> cap, device |-> cs[cap].device, flip |-> flip]>>])

\* _capture_frame(connection_id, flip); ret is what cap.read() reports.
\* A released VideoCapture yields no frame.
_capture_frame(ac, cs, connection_id, flip, ret) ==
    IF ~Has(ac, connection_id)
    THEN Outcome(ac, cs, <<>>, "UnknownConnectionError", NoRet)
    ELSE LET cap == Get(ac, connection_id)
         IN  IF ~(ret /\ cs[cap].released = 0)
             THEN Outcome(ac, cs, <<DevOp("read", cap)>>, "CaptureFailedError", NoRet)
             ELSE Outcome(ac, cs, <<DevOp("read", cap)>>, "none",
                          [NoRet EXCEPT !.frame =
                              <<[cap |-> cap, device |-> cs[cap].device, flip |-> flip]>>])

\* Mutant of _close_connection: the handle is removed but never released.
_close_connection_NoRelease(ac, cs, connection_id) ==
    IF ~Has(ac, connection_id)
    THEN Outcome(ac, cs, <<>>, "UnknownConnectionError", NoRet)
    ELSE Outcome(Del(ac, connection_id), cs, <<>>, "none", [NoRet EXCEPT !.ok = TRUE])

\* Mutant of _close_connection: the handle is released but the entry stays.
_close_connection_KeepEntry(ac, cs, connection_id) ==
    IF ~Has(ac, connection_id)
    THEN Outcome(ac, cs, <<>>, "UnknownConnectionError", NoRet)
    ELSE LET cap == Get(ac, connection_id)
         IN  Outcome(ac, Release(cs, cap), <<DevOp("release", cap)>>, "none",
                     [NoRet EXCEPT !.ok = TRUE])

\* _close_connection(connection_id)
_close_connection(ac, cs, connection_id) ==
    IF ~Has(ac, connection_id)
    THEN Outcome(ac, cs, <<>>, "UnknownConnectionError", NoRet)
    ELSE LET cap == Get(ac, connection_id)
         IN  Outcome(Del(ac, connection_id),
                     Release(cs, cap),
                     <<DevOp("release", cap)>>,
                     "none",
                     [NoRet EXCEPT !.ok = TRUE])

\* The scan of _quick_capture: the first key, in dict order, that starts with
\* camera_<device_index>_; None if there is none.
ScanDeviceKey(ac, device_index) ==
    LET hits == {i \in DOMAIN ac : StartsWith(ac[i].key, DevicePrefix(device_index))}
    IN  IF hits = {} THEN None
        ELSE Some(ac[CHOOSE i \in hits : \A j \in hits : i <= j].key)

\* Mutant of CaptureThenClose: no finally, a failed capture skips the close.
CaptureThenClose_NoFinally(ac, cs, device_key, flip, ret, temp_connection, openLog) ==
    LET c == _capture_frame(ac, cs, device_key, flip, ret)
    IN  IF ~temp_connection \/ c.err # "none"
        THEN Outcome(c.ac, c.caps, openLog \o c.log, c.err, c.ret)
        ELSE LET x == _close_connection(c.ac, c.caps, device_key)
             IN  Outcome(x.ac, x.caps, openLog \o c.log \o x.log, x.err, c.ret)

\* The try/finally of _quick_capture once device_key is known.
CaptureThenClose(ac, cs, device_key, flip, ret, temp_connection, openLog) ==
    LET c == _capture_frame(ac, cs, device_key, flip, ret)
    IN  IF ~temp_connection
        THEN Outcome(c.ac, c.caps, openLog \o c.log, c.err, c.ret)
        ELSE LET x == _close_connection(c.ac, c.caps, device_key)
             IN  \* an exception raised in the finally block replaces the pending one
                 Outcome(x.ac, x.caps, openLog \o c.log \o x.log,
                         IF x.err # "none" THEN x.err ELSE c.err,
                         IF x.err # "none" THEN NoRet ELSE c.ret)

\* Mutant of _quick_capture: the temporary connection is left open.
_quick_capture_KeepTemp(ac, cs, device_index, flip, t, isOpened, ret) ==
    LET found == ScanDeviceKey(ac, device_index)
    IN  IF found # None
        THEN CaptureThenClose(ac, cs, found[1], flip, ret, FALSE, <<>>)
        ELSE LET o == _open_camera(ac, cs, device_index, None, t, isOpened)
             IN  IF o.err # "none" THEN o
                 ELSE CaptureThenClose(o.ac, o.caps, o.ret.id[1], flip, ret, FALSE, o.log)

\* Mutant of _quick_capture: a reused connection is closed like a temporary one.
_quick_capture_CloseReused(ac, cs, device_index, flip, t, isOpened, ret) ==
    LET found == ScanDeviceKey(ac, device_index)
    IN  IF found # None
        THEN CaptureThenClose(ac, cs, found[1], flip, ret, TRUE, <<>>)
        ELSE LET o == _open_camera(ac, cs, device_index, None, t, isOpened)
             IN  IF o.err # "none" THEN o
                 ELSE CaptureThenClose(o.ac, o.caps, o.ret.id[1], flip, ret, TRUE, o.log)

\* _quick_capture(device_index, flip) at second t.
_quick_capture(ac, cs, device_index, flip, t, isOpened, ret) ==
    LET found == ScanDeviceKey(ac, device_index)
    IN  IF found # None
        THEN CaptureThenClose(ac, cs, found[1], flip, ret, FALSE, <<>>)
        ELSE LET o == _open_camera(ac, cs, device_index, None, t, isOpened)
             IN  IF o.err # "none" THEN o
                 ELSE CaptureThenClose(o.ac, o.caps, o.ret.id[1], flip, ret, TRUE, o.log)

\* get_video_properties(connection_id): eight cap.get calls; ret.ok stands for
\* the returned dict, whose values are whatever the device answers.
get_video_properties(ac, cs, connection_id) ==
    IF ~Has(ac, connection_id)
    THEN Outcome(ac, cs, <<>>, "UnknownConnectionError", NoRet)
    ELSE LET cap == Get(ac, connection_id)
         IN  Outcome(ac, cs,
                     [i \in DOMAIN PropertiesRead |-> DevOp("get", cap)],
                     "none",
                     [NoRet EXCEPT !.ok = TRUE])

\* Mutant of set_video_property: the property name is checked before the id.
set_video_property_NameFirst(ac, cs, connection_id, property_name, value, accepted) ==
    IF property_name \notin property_map
    THEN Outcome(ac, cs, <<>>, "UnknownPropertyError", NoRet)
    ELSE IF ~Has(ac, connection_id)
    THEN Outcome(ac, cs, <<>>, "UnknownConnectionError", NoRet)
    ELSE Outcome(ac, cs, <<DevOp("set", Get(ac, connection_id))>>, "none",
                 [NoRet EXCEPT !.ok = accepted])

\* Mutant of set_video_property: a name outside property_map is forwarded.
set_video_property_NoAllowList(ac, cs, connection_id, property_name, value, accepted) ==
    IF ~Has(ac, connection_id)
    THEN Outcome(ac, cs, <<>>, "UnknownConnectionError", NoRet)
    ELSE Outcome(ac, cs, <<DevOp("set", Get(ac, connection_id))>>, "none",
                 [NoRet EXCEPT !.ok = accepted])

\* set_video_property(connection_id, property_name, value); accepted is what
\* cap.set() returns.
set_video_property(ac, cs, connection_id, property_name, value, accepted) ==
    IF ~Has(ac, connection_id)
    THEN Outcome(ac, cs, <<>>, "UnknownConnectionError", NoRet)
    ELSE IF property_name \notin property_map
    THEN Outcome(ac, cs, <<>>, "UnknownPropertyError", NoRet)
    ELSE Outcome(ac, cs, <<DevOp("set", Get(ac, connection_id))>>, "none",
                 [NoRet EXCEPT !.ok = accepted])

\* list_active_connections()
list_active_connections(ac, cs) ==
    Outcome(ac, cs, <<>>, "none",
            [NoRet EXCEPT !.list = [i \in DOMAIN ac |-> ac[i].key]])

\* The for loop of app_lifespan's finally block: cap.release() on each entry in
\* dict order.  The handles in invalid are those whose release() raises; the
\* loop has no except clause, so the first such handle ends it.
RECURSIVE ReleaseAll(_, _, _, _)
ReleaseAll(cs, entries, invalid, log) ==
    IF entries = <<>> THEN [caps |-> cs, log |-> log, raised |-> FALSE]
    ELSE IF Head(entries).cap \in invalid
    THEN [caps |-> cs, log |-> Append(log, DevOp("release_raised", Head(entries).cap)),
          raised |-> TRUE]
    ELSE ReleaseAll(Release(cs, Head(entries).cap), Tail(entries), invalid,
                    Append(log, DevOp("release", Head(entries).cap)))

\* The finally block of app_lifespan: the release loop, then
\* active_captures.clear() unless the loop raised.
app_lifespan(ac, cs, invalid) ==
    LET r == ReleaseAll(cs, ac, invalid, <<>>)
    IN  IF r.raised
        THEN Outcome(ac, r.caps, r.log, "ReleaseError", NoRet)
        ELSE Outcome(<<>>, r.caps, r.log, "none", NoRet)

\* mcp = FastMCP("VideoCapture"): the server is built without lifespan=app_lifespan.
LifespanRegistered == FALSE

\* What the server runs when mcp.run() ends.
OnShutdown(ac, cs, invalid) ==
    IF LifespanRegistered THEN app_lifespan(ac, cs, invalid)
    ELSE Outcome(ac, cs, <<>>, "none", NoRet)

\* ------------------------------------------------------------------- state
VARIABLES
    active_captures,  \* the module-level dict: connection id -> VideoCapture
    caps,             \* every VideoCapture opened so far: device, release count
    now,              \* the wall clock, in seconds
    running,          \* TRUE from server start until mcp.run() returns
    last,             \* the most recent completed call (one-at-a-time dispatch)
    prev,             \* the id the call before it closed, None if it closed none
    opened_ids,       \* ids open_camera returned and close_connection has not removed
    pc,               \* per concurrent caller: where it stands in its handler
    frame             \* per concurrent caller: its handler's arguments and locals

vars == <<active_captures, caps, now, running, last, prev, opened_ids, pc, frame>>

Procs == 1..NumProcs

\* A completed call: its name, the arguments that decide its outcome, the
\* registry before it, and its Outcome.  isOpened is what cap.isOpened()
\* answered in an open_camera call, readOk what cap.read() answered in a call
\* that read a frame.
Call(op, id, device_index, name, property_name, before, out) ==
    [op |-> op, id |-> id, device_index |-> device_index, name |-> name,
     property_name |-> property_name, isOpened |-> TRUE, readOk |-> TRUE,
     before |-> before, err |-> out.err, ret |-> out.ret, log |-> out.log]

\* Whether a cap.read() is among the device operations of log.
HasRead(log) == \E i \in DOMAIN log : log[i].op = "read"

NoCall ==
    Call("none", None, 0, None, "", <<>>, Outcome(<<>>, <<>>, <<>>, "none", NoRet))

\* The id that call c closed: Some(id) after a successful close_connection.
Closed(c) == IF c.op = "close_connection" /\ c.err = "none" THEN c.id ELSE None

\* A caller's handler activation: the tool and its arguments, the local cap,
\* temp_connection of _quick_capture (temp), and, once done, the error raised
\* and the value returned.  History of the activation: the handle found under
\* id when close_connection began (seen), whether a device operation was made
\* on a handle that was already released (stale), and for quick_capture the
\* handle the call created (mine), the handle it released (released) and the
\* handle of the entry it deleted (removed).
Frame(op, id, device_index, name, flip, seen) ==
    [op |-> op, id |-> id, device_index |-> device_index, name |-> name,
     flip |-> flip, property_name |-> <<>>, cap |-> <<>>, temp |-> FALSE,
     seen |-> seen, stale |-> FALSE, mine |-> <<>>, released |-> <<>>,
     removed |-> <<>>,
     done |-> FALSE, err |-> "none", ret |-> NoRet]

IdleFrame == Frame("none", None, 0, None, FALSE, <<>>)

Init ==
    /\ active_captures = <<>>
    /\ caps = <<>>
    /\ now = 0
    /\ running = TRUE
    /\ last = NoCall
    /\ prev = Closed(NoCall)
    /\ opened_ids = {}
    /\ pc = [p \in Procs |-> "idle"]
    /\ frame = [p \in Procs |-> IdleFrame]

\* --------------------------------------- one request at a time (the dispatcher)
\* The ids that callers hold after call c: a successful open_camera hands one
\* out, a successful close_connection takes one back.
Track(ids, c) ==
    IF c.op = "open_camera" /\ c.err = "none" THEN ids \cup {c.ret.id[1]}
    ELSE IF c.op = "close_connection" /\ c.err = "none" THEN ids \ {c.id[1]}
    ELSE ids

\* The dispatcher runs a tool to completion before it takes the next request.
Dispatch(call, out) ==
    /\ running
    /\ active_captures' = out.ac
    /\ caps' = out.caps
    /\ prev' = Closed(last)
    /\ last' = call
    /\ opened_ids' = Track(opened_ids, call)
    /\ UNCHANGED <<now, running, pc, frame>>

\* What the device may answer to a call the handler makes on it: success or
\* failure when the call is reached, nothing to choose when it is not.
Answers(reached) == IF reached THEN BOOLEAN ELSE {TRUE}

OpenCamera ==
    \E device_index \in Devices, name \in {None} \cup {Some(n) : n \in UserNames},
       isOpened \in BOOLEAN :
        /\ Len(caps) < MaxCaps
        /\ LET out == _open_camera(active_captures, caps, device_index, name, now, isOpened)
           IN  Dispatch([Call("open_camera", None, device_index, name, "",
                              active_captures, out) EXCEPT !.isOpened = isOpened], out)

CaptureFrame ==
    \E connection_id \in ConnIds(active_captures), flip \in BOOLEAN :
      \E ret \in Answers(Has(active_captures, connection_id)) :
        LET out == _capture_frame(active_captures, caps, connection_id, flip, ret)
        IN  Dispatch([Call("capture_frame", Some(connection_id), 0, None, "",
                           active_captures, out)
                        EXCEPT !.readOk = ret \/ ~HasRead(out.log)], out)

QuickCapture ==
    \E device_index \in Devices, flip \in BOOLEAN :
      \E isOpened \in Answers(ScanDeviceKey(active_captures, device_index) = None) :
      \E ret \in Answers(isOpened) :
        /\ ScanDeviceKey(active_captures, device_index) = None => Len(caps) < MaxCaps
        /\ LET out == _quick_capture(active_captures, caps, device_index, flip, now,
                                     isOpened, ret)
           IN  Dispatch([Call("quick_capture", None, device_index, None, "",
                              active_captures, out)
                           EXCEPT !.readOk = ret \/ ~HasRead(out.log)], out)

GetVideoProperties ==
    \E connection_id \in ConnIds(active_captures) :
        LET out == get_video_properties(active_captures, caps, connection_id)
        IN  Dispatch(Call("get_video_properties", Some(connection_id), 0, None, "",
                          active_captures, out), out)

SetVideoProperty ==
    \E connection_id \in ConnIds(active_captures), property_name \in PropInputs,
       value \in Values :
      \E accepted \in Answers(/\ Has(active_captures, connection_id)
                               /\ property_name \in property_map) :
        LET out == set_video_property(active_captures, caps, connection_id,
                                      property_name, value, accepted)
        IN  Dispatch(Call("set_video_property", Some(connection_id), 0, None,
                          property_name, active_captures, out), out)

CloseConnection ==
    \E connection_id \in ConnIds(active_captures) :
        LET out == _close_connection(active_captures, caps, connection_id)
        IN  Dispatch(Call("close_connection", Some(connection_id), 0, None, "",
                          active_captures, out), out)

ListActiveConnections ==
    LET out == list_active_connections(active_captures, caps)
    IN  Dispatch(Call("list_active_connections", None, 0, None, "",
                      active_captures, out), out)

\* A second passes.
Tick ==
    /\ running
    /\ now < MaxTime
    /\ now' = now + 1
    /\ UNCHANGED <<active_captures, caps, running, last, prev, opened_ids, pc, frame>>

\* The server stops after running teardown code with Outcome out.
Exit(out) ==
    /\ active_captures' = out.ac
    /\ caps' = out.caps
    /\ prev' = Closed(last)
    /\ last' = Call("shutdown", None, 0, None, "", active_captures, out)
    /\ running' = FALSE
    /\ UNCHANGED <<now, opened_ids, pc, frame>>

\* mcp.run() returns: the server shuts down.
Shutdown ==
    /\ running
    /\ \A p \in Procs : pc[p] = "idle"
    /\ \E invalid \in IF LifespanRegistered
                        THEN SUBSET {active_captures[i].cap : i \in DOMAIN active_captures}
                        ELSE {{}} :
          Exit(OnShutdown(active_captures, caps, invalid))

Next ==
    \/ OpenCamera
    \/ CaptureFrame
    \/ QuickCapture
    \/ GetVideoProperties
    \/ SetVideoProperty
    \/ CloseConnection
    \/ ListActiveConnections
    \/ Tick
    \/ Shutdown

Spec == Init /\ [][Next]_vars

\* ------------------------------------------------ app_lifespan as the lifespan
\* app_lifespan applied to the registries the tools produce: the server of the
\* commented-out constructor call, FastMCP(..., lifespan=app_lifespan), whose
\* shutdown runs the finally block.
LifespanExit ==
    /\ running
    /\ \A p \in Procs : pc[p] = "idle"
    /\ \E invalid \in SUBSET {active_captures[i].cap : i \in DOMAIN active_captures} :
          Exit(app_lifespan(active_captures, caps, invalid))

NextLifespan ==
    \/ OpenCamera
    \/ CaptureFrame
    \/ QuickCapture
    \/ GetVideoProperties
    \/ SetVideoProperty
    \/ CloseConnection
    \/ ListActiveConnections
    \/ Tick
    \/ LifespanExit

SpecLifespan == Init /\ [][NextLifespan]_vars

\* ------------------------------------------------- interleaved callers
\* Several requests run at once, each in its own thread: a handler is a
\* sequence of steps, one per access to active_captures or to the device, and
\* the steps of different callers interleave.  The handlers take no lock.

\* The handle registered under id, as an Optional.
Lookup(d, id) == IF Has(d, id) THEN <<Get(d, id)>> ELSE <<>>

\* Caller p starts a tool.
Begin(p, f, label) ==
    /\ running
    /\ pc[p] = "idle"
    /\ frame' = [frame EXCEPT ![p] = f]
    /\ pc' = [pc EXCEPT ![p] = label]

\* The activation f after its handler raised err or returned ret: the locals
\* are gone.
Return(f, err, ret) ==
    [f EXCEPT !.done = TRUE, !.err = err, !.ret = ret,
              !.cap = <<>>, !.name = None, !.flip = FALSE, !.property_name = <<>>,
              !.device_index = 0, !.temp = FALSE]

\* Caller p's handler raises err or returns ret.
Finish(p, err, ret) ==
    /\ frame' = [frame EXCEPT ![p] = Return(@, err, ret)]
    /\ pc' = [pc EXCEPT ![p] = "idle"]

Goto(p, label) == pc' = [pc EXCEPT ![p] = label]

\* VideoCapture objects that callers past the start of a handler may still create.
PendingOpens ==
    Cardinality({p \in Procs : pc[p] \in {"quick_scan", "open_name", "open_device"}})

\* open_camera(device_index, name) is called.
OpenBegin(p) ==
    \E device_index \in Devices, name \in {None} \cup {Some(n) : n \in UserNames} :
        /\ Len(caps) + PendingOpens < MaxCaps
        /\ Begin(p, Frame("open_camera", None, device_index, name, FALSE, <<>>),
                 "open_name")
        /\ UNCHANGED <<active_captures, caps, now, running, last, prev, opened_ids>>

\* lines 229-230: the name is generated from the clock if none was given.
OpenName(p) ==
    /\ pc[p] = "open_name"
    /\ frame' = [frame EXCEPT ![p].name =
                    IF @ = None THEN Some(GenName(frame[p].device_index, now)) ELSE @]
    /\ Goto(p, "open_device")
    /\ UNCHANGED <<active_captures, caps, now, running, last, prev, opened_ids>>

\* lines 232-234: cv2.VideoCapture(device_index) and the isOpened test.
OpenDevice(p) ==
    /\ pc[p] = "open_device"
    /\ \E isOpened \in BOOLEAN :
          IF ~isOpened
          THEN /\ Finish(p, "DeviceOpenError", NoRet)
               /\ UNCHANGED caps
          ELSE /\ caps' = Append(caps, [device |-> frame[p].device_index, released |-> 0])
               /\ frame' = [frame EXCEPT ![p].cap = <<Len(caps) + 1>>,
                                         ![p].mine = IF frame[p].op = "quick_capture"
                                                     THEN <<Len(caps) + 1>> ELSE @]
               /\ Goto(p, "open_store")
    /\ UNCHANGED <<active_captures, now, running, last, prev, opened_ids>>

\* lines 236-237: active_captures[name] = cap; return name.  In _quick_capture
\* (lines 177-178) the name becomes device_key and temp_connection is set.
OpenStore(p) ==
    /\ pc[p] = "open_store"
    /\ active_captures' = Put(active_captures, frame[p].name[1], frame[p].cap[1])
    /\ IF frame[p].op = "quick_capture"
       THEN /\ frame' = [frame EXCEPT ![p].id = frame[p].name, ![p].temp = TRUE,
                                      ![p].cap = <<>>]
            /\ Goto(p, "capture_check")
       ELSE Finish(p, "none", [NoRet EXCEPT !.id = frame[p].name])
    /\ UNCHANGED <<caps, now, running, last, prev, opened_ids>>

\* close_connection(connection_id) is called.
CloseBegin(p) ==
    \E connection_id \in ConnIds(active_captures) :
        /\ Begin(p, Frame("close_connection", Some(connection_id), 0, None, FALSE,
                          Lookup(active_captures, connection_id)),
                 "close_check")
        /\ UNCHANGED <<active_captures, caps, now, running, last, prev, opened_ids>>

\* lines 371-372: if connection_id not in active_captures: raise ValueError.
CloseCheck(p) ==
    /\ pc[p] = "close_check"
    /\ IF Has(active_captures, frame[p].id[1])
       THEN Goto(p, "close_lookup") /\ UNCHANGED frame
       ELSE Finish(p, "UnknownConnectionError", NoRet)
    /\ UNCHANGED <<active_captures, caps, now, running, last, prev, opened_ids>>

\* line 374, the subscript active_captures[connection_id]: KeyError if the
\* key has gone since the test.
CloseLookup(p) ==
    /\ pc[p] = "close_lookup"
    /\ IF Has(active_captures, frame[p].id[1])
       THEN /\ frame' = [frame EXCEPT ![p].cap = <<Get(active_captures, frame[p].id[1])>>]
            /\ Goto(p, "close_release")
       ELSE Finish(p, "KeyError", NoRet)
    /\ UNCHANGED <<active_captures, caps, now, running, last, prev, opened_ids>>

\* line 374, .release() on the handle that was looked up.
CloseRelease(p) ==
    /\ pc[p] = "close_release"
    /\ caps' = Release(caps, frame[p].cap[1])
    /\ frame' = [frame EXCEPT ![p].stale = @ \/ (caps[frame[p].cap[1]].released > 0),
                              ![p].released = IF frame[p].op = "quick_capture"
                                              THEN frame[p].cap ELSE @]
    /\ Goto(p, "close_del")
    /\ UNCHANGED <<active_captures, now, running, last, prev, opened_ids>>

\* lines 375-376: del active_captures[connection_id]; return True.  At the end
\* of _quick_capture's finally block the pending result of the try block
\* (the frame, or the capture error) is delivered instead.
CloseDel(p) ==
    /\ pc[p] = "close_del"
    /\ IF Has(active_captures, frame[p].id[1])
       THEN /\ active_captures' = Del(active_captures, frame[p].id[1])
            /\ frame' = [frame EXCEPT ![p] =
                   IF frame[p].op = "quick_capture"
                   THEN [Return(@, @.err, @.ret)
                         EXCEPT !.removed = <<Get(active_captures, frame[p].id[1])>>]
                   ELSE Return(@, "none", [NoRet EXCEPT !.ok = TRUE])]
            /\ pc' = [pc EXCEPT ![p] = "idle"]
       ELSE /\ Finish(p, "KeyError", NoRet)
            /\ UNCHANGED active_captures
    /\ UNCHANGED <<caps, now, running, last, prev, opened_ids>>

\* _capture_frame raises err or returns ret.  In _quick_capture with
\* temp_connection set, the finally block (lines 184-187) runs first.
CaptureEnd(p, err, ret, stale) ==
    IF frame[p].op = "quick_capture" /\ frame[p].temp
    THEN /\ frame' = [frame EXCEPT ![p].err = err, ![p].ret = ret,
                                   ![p].stale = stale, ![p].cap = <<>>]
         /\ Goto(p, "close_check")
    ELSE /\ frame' = [frame EXCEPT ![p] = [Return(@, err, ret) EXCEPT !.stale = stale]]
         /\ pc' = [pc EXCEPT ![p] = "idle"]

\* capture_frame(connection_id, flip) is called.
CaptureBegin(p) ==
    \E connection_id \in ConnIds(active_captures), flip \in BOOLEAN :
        /\ Begin(p, Frame("capture_frame", Some(connection_id), 0, None, flip, <<>>),
                 "capture_check")
        /\ UNCHANGED <<active_captures, caps, now, running, last, prev, opened_ids>>

\* lines 265-266: the membership test.
CaptureCheck(p) ==
    /\ pc[p] = "capture_check"
    /\ IF Has(active_captures, frame[p].id[1])
       THEN Goto(p, "capture_lookup") /\ UNCHANGED frame
       ELSE CaptureEnd(p, "UnknownConnectionError", NoRet, FALSE)
    /\ UNCHANGED <<active_captures, caps, now, running, last, prev, opened_ids>>

\* line 268: cap = active_captures[connection_id].
CaptureLookup(p) ==
    /\ pc[p] = "capture_lookup"
    /\ IF Has(active_captures, frame[p].id[1])
       THEN /\ frame' = [frame EXCEPT ![p].cap = <<Get(active_captures, frame[p].id[1])>>]
            /\ Goto(p, "capture_read")
       ELSE CaptureEnd(p, "KeyError", NoRet, FALSE)
    /\ UNCHANGED <<active_captures, caps, now, running, last, prev, opened_ids>>

\* lines 269-283: cap.read(), then flip, encode and return, or RuntimeError.
CaptureRead(p) ==
    /\ pc[p] = "capture_read"
    /\ \E ret \in BOOLEAN :
          LET cap  == frame[p].cap[1]
              gone == caps[cap].released > 0
          IN  IF ret /\ ~gone
              THEN CaptureEnd(p, "none",
                              [NoRet EXCEPT !.frame =
                                  <<[cap |-> cap, device |-> caps[cap].device,
                                     flip |-> frame[p].flip]>>],
                              gone)
              ELSE CaptureEnd(p, "CaptureFailedError", NoRet, gone)
    /\ UNCHANGED <<active_captures, caps, now, running, last, prev, opened_ids>>

\* get_video_properties(connection_id) is called.
GetBegin(p) ==
    \E connection_id \in ConnIds(active_captures) :
        /\ Begin(p, Frame("get_video_properties", Some(connection_id), 0, None, FALSE,
                          <<>>),
                 "prop_check")
        /\ UNCHANGED <<active_captures, caps, now, running, last, prev, opened_ids>>

\* set_video_property(connection_id, property_name, value) is called.
SetBegin(p) ==
    \E connection_id \in ConnIds(active_captures), property_name \in PropInputs :
        /\ Begin(p, [Frame("set_video_property", Some(connection_id), 0, None, FALSE, <<>>)
                        EXCEPT !.property_name = <<property_name>>],
                 "prop_check")
        /\ UNCHANGED <<active_captures, caps, now, running, last, prev, opened_ids>>

\* lines 296-297 and 327-328: the membership test.
PropCheck(p) ==
    /\ pc[p] = "prop_check"
    /\ IF Has(active_captures, frame[p].id[1])
       THEN Goto(p, "prop_lookup") /\ UNCHANGED frame
       ELSE Finish(p, "UnknownConnectionError", NoRet)
    /\ UNCHANGED <<active_captures, caps, now, running, last, prev, opened_ids>>

\* lines 299 and 330: cap = active_captures[connection_id].
PropLookup(p) ==
    /\ pc[p] = "prop_lookup"
    /\ IF Has(active_captures, frame[p].id[1])
       THEN /\ frame' = [frame EXCEPT ![p].cap = <<Get(active_captures, frame[p].id[1])>>]
            /\ Goto(p, "prop_access")
       ELSE Finish(p, "KeyError", NoRet)
    /\ UNCHANGED <<active_captures, caps, now, running, last, prev, opened_ids>>

\* lines 301-312: the cap.get calls; lines 343-346: the allow-list test and
\* cap.set.  A released handle answers cap.get with zeros and refuses cap.set.
PropAccess(p) ==
    /\ pc[p] = "prop_access"
    /\ LET gone == caps[frame[p].cap[1]].released > 0
       IN  IF frame[p].op = "get_video_properties"
           THEN /\ frame' = [frame EXCEPT ![p] =
                       [Return(@, "none", [NoRet EXCEPT !.ok = TRUE, !.list = PropertiesRead])
                        EXCEPT !.stale = gone]]
                /\ pc' = [pc EXCEPT ![p] = "idle"]
           ELSE IF frame[p].property_name[1] \notin property_map
           THEN Finish(p, "UnknownPropertyError", NoRet)
           ELSE \E accepted \in BOOLEAN :
                   /\ gone => ~accepted
                   /\ frame' = [frame EXCEPT ![p] =
                          [Return(@, "none", [NoRet EXCEPT !.ok = accepted])
                           EXCEPT !.stale = gone]]
                   /\ pc' = [pc EXCEPT ![p] = "idle"]
    /\ UNCHANGED <<active_captures, caps, now, running, last, prev, opened_ids>>

\* quick_capture(device_index, flip) is called.
QuickBegin(p) ==
    \E device_index \in Devices, flip \in BOOLEAN :
        /\ Len(caps) + PendingOpens < MaxCaps
        /\ Begin(p, Frame("quick_capture", None, device_index, None, flip, <<>>),
                 "quick_scan")
        /\ UNCHANGED <<active_captures, caps, now, running, last, prev, opened_ids>>

\* lines 168-178: the scan of the registry for a key of this device; if none,
\* _open_camera(device_index) is entered with no name.
QuickScan(p) ==
    /\ pc[p] = "quick_scan"
    /\ LET device_key == ScanDeviceKey(active_captures, frame[p].device_index)
       IN  IF device_key = None
           THEN Goto(p, "open_name") /\ UNCHANGED frame
           ELSE /\ frame' = [frame EXCEPT ![p].id = device_key]
                /\ Goto(p, "capture_check")
    /\ UNCHANGED <<active_captures, caps, now, running, last, prev, opened_ids>>

\* A second passes while callers run.
TickConc ==
    /\ running
    /\ now < MaxTime
    /\ now' = now + 1
    /\ UNCHANGED <<active_captures, caps, running, last, prev, opened_ids, pc, frame>>

NextConc ==
    \/ \E p \in Procs : OpenBegin(p)
    \/ \E p \in Procs : OpenName(p)
    \/ \E p \in Procs : OpenDevice(p)
    \/ \E p \in Procs : OpenStore(p)
    \/ \E p \in Procs : CloseBegin(p)
    \/ \E p \in Procs : CloseCheck(p)
    \/ \E p \in Procs : CloseLookup(p)
    \/ \E p \in Procs : CloseRelease(p)
    \/ \E p \in Procs : CloseDel(p)
    \/ \E p \in Procs : CaptureBegin(p)
    \/ \E p \in Procs : CaptureCheck(p)
    \/ \E p \in Procs : CaptureLookup(p)
    \/ \E p \in Procs : CaptureRead(p)
    \/ TickConc

SpecConc == Init /\ [][NextConc]_vars

\* open_camera(0, name) is called.
OpenBeginDevice0(p) == OpenBegin(p) /\ frame'[p].device_index = 0

\* Callers that use a connection (capture_frame, get_video_properties,
\* set_video_property) interleaved with callers of open_camera and
\* close_connection, within one second.  The device index plays no part in
\* these handlers once the device is open, so every connection is on device 0.
NextUse ==
    \/ \E p \in Procs : OpenBeginDevice0(p)
    \/ \E p \in Procs : OpenName(p)
    \/ \E p \in Procs : OpenDevice(p)
    \/ \E p \in Procs : OpenStore(p)
    \/ \E p \in Procs : CloseBegin(p)
    \/ \E p \in Procs : CloseCheck(p)
    \/ \E p \in Procs : CloseLookup(p)
    \/ \E p \in Procs : CloseRelease(p)
    \/ \E p \in Procs : CloseDel(p)
    \/ \E p \in Procs : CaptureBegin(p)
    \/ \E p \in Procs : CaptureCheck(p)
    \/ \E p \in Procs : CaptureLookup(p)
    \/ \E p \in Procs : CaptureRead(p)
    \/ \E p \in Procs : GetBegin(p)
    \/ \E p \in Procs : SetBegin(p)
    \/ \E p \in Procs : PropCheck(p)
    \/ \E p \in Procs : PropLookup(p)
    \/ \E p \in Procs : PropAccess(p)

SpecUse == Init /\ [][NextUse]_vars

\* Callers of quick_capture interleaved with callers of open_camera,
\* close_connection and quick_capture.
NextQuick ==
    \/ \E p \in Procs : QuickBegin(p)
    \/ \E p \in Procs : QuickScan(p)
    \/ \E p \in Procs : OpenBegin(p)
    \/ \E p \in Procs : OpenName(p)
    \/ \E p \in Procs : OpenDevice(p)
    \/ \E p \in Procs : OpenStore(p)
    \/ \E p \in Procs : CaptureCheck(p)
    \/ \E p \in Procs : CaptureLookup(p)
    \/ \E p \in Procs : CaptureRead(p)
    \/ \E p \in Procs : CloseBegin(p)
    \/ \E p \in Procs : CloseCheck(p)
    \/ \E p \in Procs : CloseLookup(p)
    \/ \E p \in Procs : CloseRelease(p)
    \/ \E p \in Procs : CloseDel(p)
    \/ TickConc

SpecQuick == Init /\ [][NextQuick]_vars

\* ------------------------------------------------------------------ claims
\* Handles that are values of the registry d.
Registered(d) == {d[i].cap : i \in DOMAIN d}
\* Handles a call opened.
Opened(call) == {call.log[i].cap : i \in {j \in DOMAIN call.log : call.log[j].op = "open"}}
\* Handles of registry d that were opened on device_index.
OnDevice(d, device_index) == {h \in Registered(d) : caps[h].device = device_index}
ByIdOps == {"capture_frame", "get_video_properties", "set_video_property", "close_connection"}

\* C1: whenever close_connection(id) returns true, id is no longer a key of the
\* registry and the handle that was registered under id has been released
\* exactly once in total.
C1_CloseRemovesAndReleasesOnce ==
    (last.op = "close_connection" /\ last.err = "none" /\ last.ret.ok) =>
        LET id == last.id[1]
        IN  /\ Has(last.before, id)
            /\ ~Has(active_captures, id)
            /\ caps[Get(last.before, id)].released = 1

\* A close returned true while another connection stays open.
C1_Witness ==
    /\ last.op = "close_connection" /\ last.err = "none" /\ last.ret.ok
    /\ active_captures # <<>>

\* C2: every handle open_camera has opened is either a current value of the
\* registry or already released (no unreleased handle outside the registry).
C2_NoUnreleasedHandleOutsideRegistry ==
    \A h \in DOMAIN caps : h \in Registered(active_captures) \/ caps[h].released >= 1

\* C3: if no connection for device_index exists when quick_capture(device_index)
\* is called, then after it returns (success, open failure or read failure) the
\* registry is what it was, holds no key for that device, and the handle the
\* call opened has been released.
C3_QuickCaptureColdLeavesNothing ==
    (last.op = "quick_capture"
        /\ ScanDeviceKey(last.before, last.device_index) = None) =>
        /\ active_captures = last.before
        /\ ScanDeviceKey(active_captures, last.device_index) = None
        /\ \A h \in Opened(last) :
              caps[h].released = 1 /\ h \notin Registered(active_captures)
        /\ last.err \in {"none", "DeviceOpenError", "CaptureFailedError"}
        /\ last.err # "DeviceOpenError" => Cardinality(Opened(last)) = 1
        /\ OnDevice(last.before, last.device_index) = {} =>
              OnDevice(active_captures, last.device_index) = {}

\* quick_capture opened a temporary handle and the read then failed, while
\* another connection was open.
C3_Witness ==
    /\ last.op = "quick_capture"
    /\ last.err = "CaptureFailedError"
    /\ Opened(last) # {}
    /\ last.before # <<>>

C5_UnknownIdFails ==
    (last.op \in ByIdOps /\ ~Has(last.before, last.id[1])) =>
        /\ last.err = "UnknownConnectionError"
        /\ active_captures = last.before
        /\ last.log = <<>>

\* set_video_property with an unknown property name on an id that is not open,
\* while other connections are open.
C5_Witness ==
    /\ last.op = "set_video_property"
    /\ last.property_name \notin property_map
    /\ ~Has(last.before, last.id[1])
    /\ last.before # <<>>

\* C6: of two consecutive close_connection(id) calls on an open id, the first
\* returns true, the second fails with UnknownConnectionError and releases nothing.
C6_SecondCloseFails ==
    /\ (last.op = "close_connection" /\ Has(last.before, last.id[1])) =>
            last.err = "none" /\ last.ret.ok
    /\ (last.op = "close_connection" /\ prev # None /\ last.id = prev) =>
            /\ last.err = "UnknownConnectionError"
            /\ last.log = <<>>
            /\ active_captures = last.before

\* The second of two consecutive closes of the same id has run.
C6_Witness ==
    last.op = "close_connection" /\ prev # None /\ last.id = prev

\* C7: when two callers run close_connection on the same open id concurrently
\* (both calls began while the same handle was registered under id), exactly
\* one returns true, the other fails with UnknownConnectionError, and the
\* handle is released exactly once.
C7_ConcurrentCloseOneWins ==
    \A p, q \in Procs :
        (/\ p # q
         /\ frame[p].op = "close_connection" /\ frame[p].done
         /\ frame[q].op = "close_connection" /\ frame[q].done
         /\ frame[p].id = frame[q].id
         /\ frame[p].seen # <<>> /\ frame[p].seen = frame[q].seen) =>
            /\ \/ frame[p].err = "none" /\ frame[p].ret.ok
                     /\ frame[q].err = "UnknownConnectionError"
               \/ frame[q].err = "none" /\ frame[q].ret.ok
                     /\ frame[p].err = "UnknownConnectionError"
            /\ caps[frame[p].seen[1]].released = 1

\* C8: when the server shuts down, every handle in the registry at that moment
\* is released exactly once and the registry is empty afterwards.
C8_ShutdownReleasesAll ==
    ~running =>
        /\ active_captures = <<>>
        /\ \A h \in Registered(last.before) : caps[h].released = 1

\* C9: when the device cannot be opened, open_camera fails with DeviceOpenError
\* and the registry is as before: no new key, and an entry under the requested
\* name keeps its handle.
C9_FailedOpenRegistersNothing ==
    /\ (last.op = "open_camera" /\ ~last.isOpened) =>
            /\ last.err = "DeviceOpenError"
            /\ active_captures = last.before
            /\ last.log = <<>>
    /\ (last.op = "open_camera" /\ last.isOpened) => last.err = "none"

\* open_camera failed under a name that is already a key.
C9_Witness ==
    /\ last.op = "open_camera"
    /\ ~last.isOpened
    /\ last.err = "DeviceOpenError"
    /\ last.name # None
    /\ Has(last.before, last.name[1])

\* id reads camera_<device_index>_<14 digits>.
IsGeneratedId(id, device_index) ==
    LET n == Len(IntStr(device_index))
    IN  /\ Len(id) = 7 + n + 1 + 14
        /\ SubSeq(id, 1, 7) = <<"c", "a", "m", "e", "r", "a", "_">>
        /\ SubSeq(id, 8, 7 + n) = IntStr(device_index)
        /\ id[8 + n] = "_"
        /\ \A i \in (9 + n)..Len(id) : \E d \in DOMAIN DigitChars : id[i] = DigitChars[d]

\* The set of ids list_active_connections returns on registry d.
Listed(d) ==
    LET l == list_active_connections(d, caps).ret.list IN {l[i] : i \in DOMAIN l}

\* C10: a successful open_camera(device_index) without a name returns an id of
\* the form camera_<device_index>_<timestamp>; the listed ids afterwards are
\* those before plus that id, and every other entry is unchanged.
C10_GeneratedIdListed ==
    (last.op = "open_camera" /\ last.name = None /\ last.err = "none") =>
        LET id == last.ret.id[1]
        IN  /\ IsGeneratedId(id, last.device_index)
            /\ Listed(active_captures) = Listed(last.before) \cup {id}
            /\ \A k \in Keys(last.before) \ {id} :
                  Get(active_captures, k) = Get(last.before, k)
            /\ Opened(last) = {Get(active_captures, id)}

\* A nameless open_camera succeeded while other connections were open.
C10_Witness ==
    /\ last.op = "open_camera" /\ last.name = None /\ last.err = "none"
    /\ \E k \in Keys(last.before) : k # last.ret.id[1]

\* The allow-list of the specification of set_video_property.
AllowedProperties ==
    {"width", "height", "fps", "brightness", "contrast", "saturation",
     "auto_exposure", "auto_focus"}

\* C11: on an open connection, set_video_property with a property name outside
\* the allow-list fails with UnknownPropertyError, forwards no set request to
\* the device and leaves the registry unchanged.
C11_UnknownPropertyFails ==
    (last.op = "set_video_property"
        /\ Has(last.before, last.id[1])
        /\ last.property_name \notin AllowedProperties) =>
        /\ last.err = "UnknownPropertyError"
        /\ last.log = <<>>
        /\ active_captures = last.before

\* set_video_property was called on an open connection with a name that
\* get_video_properties reads but set_video_property does not accept.
C11_Witness ==
    /\ last.op = "set_video_property"
    /\ Has(last.before, last.id[1])
    /\ last.property_name = "frame_count"

\* C12: when capture_frame(id) runs on an open connection and the read yields
\* no frame, it makes exactly one read, fails with CaptureFailedError and
\* leaves id mapped to the same unreleased handle.
C12_FailedReadKeepsConnection ==
    (last.op = "capture_frame" /\ Has(last.before, last.id[1]) /\ ~last.readOk) =>
        LET h == Get(last.before, last.id[1])
        IN  /\ last.err = "CaptureFailedError"
            /\ last.log = <<DevOp("read", h)>>
            /\ active_captures = last.before
            /\ Has(active_captures, last.id[1])
            /\ Get(active_captures, last.id[1]) = h
            /\ caps[h].released = 0

\* capture_frame on an open connection got no frame.
C12_Witness ==
    last.op = "capture_frame" /\ Has(last.before, last.id[1]) /\ ~last.readOk

\* C13: after any sequence of calls, list_active_connections returns exactly
\* the ids that a successful open_camera returned and no later successful
\* close_connection removed, and the call changes neither the registry nor
\* any handle.
C13_ListIsOpenedMinusClosed ==
    /\ Listed(active_captures) = opened_ids
    /\ last.op = "list_active_connections" =>
          /\ last.err = "none"
          /\ {last.ret.list[i] : i \in DOMAIN last.ret.list} = opened_ids
          /\ Len(last.ret.list) = Cardinality(opened_ids)
          /\ active_captures = last.before
          /\ last.log = <<>>

\* list_active_connections ran after opens, a close and a quick_capture had
\* left one id open and one closed.
C13_Witness ==
    /\ last.op = "list_active_connections"
    /\ opened_ids # {}
    /\ \E h \in DOMAIN caps : caps[h].released = 1

\* Handles whose release() raised during call.
ReleaseRaised(call) ==
    {call.log[i].cap : i \in {j \in DOMAIN call.log : call.log[j].op = "release_raised"}}

\* C14: during teardown, if releasing one handle fails because that handle is
\* invalid, teardown still releases every other handle in the registry and
\* still empties the registry.
C14_TeardownToleratesInvalidHandle ==
    (last.op = "shutdown" /\ ReleaseRaised(last) # {}) =>
        /\ active_captures = <<>>
        /\ \A h \in Registered(last.before) \ ReleaseRaised(last) : caps[h].released = 1

\* C15: under one-request-at-a-time dispatch every handle stored in the
\* registry is open (never released), so capture_frame, get_video_properties
\* and set_video_property never operate on a released handle.
C15_RegisteredHandlesAreOpen ==
    /\ \A h \in Registered(active_captures) : caps[h].released = 0
    /\ last.op \in {"capture_frame", "get_video_properties", "set_video_property"} =>
          \A i \in DOMAIN last.log :
              /\ last.log[i].cap \in Registered(last.before)
              /\ caps[last.log[i].cap].released = 0

\* capture_frame read a frame from a registered handle after another handle
\* had been released.
C15_Witness ==
    /\ last.op = "capture_frame" /\ last.err = "none"
    /\ \E h \in DOMAIN caps : caps[h].released = 1

\* C16: the frame quick_capture(device_index) returns is read from a handle
\* that was opened on device_index.
C16_QuickCaptureReadsItsDevice ==
    (last.op = "quick_capture" /\ last.err = "none") =>
        /\ last.ret.frame # <<>>
        /\ last.ret.frame[1].device = last.device_index
        /\ caps[last.ret.frame[1].cap].device = last.device_index

\* C17: when quick_capture opened a temporary handle, the handle it releases
\* and the handle of the registry entry it deletes are the one this call
\* created, whatever open_camera, close_connection and quick_capture calls run
\* in between.
C17_QuickCaptureClosesItsOwn ==
    \A p \in Procs :
        (frame[p].op = "quick_capture" /\ frame[p].mine # <<>>) =>
            /\ frame[p].released # <<>> => frame[p].released = frame[p].mine
            /\ frame[p].removed # <<>> => frame[p].removed = frame[p].mine

\* C18: no frame is read and no property is got or set on a handle that was
\* already released, whatever close_connection calls run in between.
C18_NoUseAfterRelease ==
    \A p \in Procs :
        frame[p].op \in {"capture_frame", "get_video_properties", "set_video_property"}
            => ~frame[p].stale

=============================================================================
